---- MODULE Spec2Model ----
(***************************************************************************)
(* A model of flight_scraper.py: the merge of the default and cheapest     *)
(* views in scrape_flights, the ranking, snapshot diff and alerting of     *)
(* save_to_excel, the container bounding of scrape_current_page_flights    *)
(* and the EXCEL_LOCK discipline.                                          *)
(*                                                                         *)
(* Texts (prices, price changes) are sequences of one-character strings,   *)
(* so that the regex stripping and float parsing of the code are computed  *)
(* and not assumed.  Floats are held in tenths (an integer n stands for    *)
(* n/10); every price text enumerated below has at most one decimal digit, *)
(* so the representation is exact.                                         *)
(***************************************************************************)
EXTENDS Integers, Sequences, FiniteSets, TLC

VARIABLES
    pc,                  \* position of the (single) pipeline being run
    viewA,               \* records returned for the default view, as returned
    viewB,               \* records returned for the cheapest view, as returned
    initial_flights,     \* scrape_flights: initial_flights (dicts are mutated in place)
    cheapest_flights,    \* scrape_flights: cheapest_flights (dicts are mutated in place)
    cheapest_price_dict, \* scrape_flights: cheapest_price_dict
    all_flights_to_save, \* scrape_flights: all_flights_to_save
    data,                \* save_to_excel: the list it is called with
    combined,            \* save_to_excel: df / combined, rows in ranked order, each with its index label
    bucket_name,         \* whether S3_BUCKET_NAME is set
    s3_object,           \* the stored sheet for this file name: <<>> (no object) or <<rows>>
    previous_prices,     \* save_to_excel: previous_prices
    alerts,              \* index labels for which send_telegram_alert was called, in call order
    EXCEL_LOCK,          \* whether the lock is held
    uploaded,            \* whether upload_fileobj completed
    save_failed,         \* whether the except branch at lines 373-375 ran
    url_google,          \* scrape_flights: whether "google.com" is in url
    locator_failed,      \* the views whose container locator raised
    flights_saved,       \* scrape_flights: flights_saved
    result,              \* what scrape_flights returned: "pending", "True" or "False"
    located,             \* scrape_current_page_flights: the containers the locator returned
    containers,          \* scrape_current_page_flights: containers after line 426
    all_flights,         \* scrape_current_page_flights: the containers extracted so far
    content,             \* the page: what extract_flight_data finds in each container
    flights,             \* scrape_current_page_flights: flights, the list it returns
    dom,                 \* the page as the locator queries it
    flight_li_class,     \* scrape_current_page_flights: flight_li_class, <<>> before line 410
    wpc,                 \* concurrent callers of save_to_excel: position of each worker
    wfile,               \* the file name (output identifier) of each worker's call
    wread,               \* the version of the stored sheet each worker read
    store,               \* the version of the stored sheet of each file name
    calls                \* how many calls each worker has completed

mergeVars == <<viewA, viewB, initial_flights, cheapest_flights,
               cheapest_price_dict, all_flights_to_save>>
saveVars == <<data, combined, bucket_name, s3_object, previous_prices, alerts,
              EXCEL_LOCK, uploaded, save_failed>>
runVars == <<url_google, locator_failed, flights_saved, result>>
pageVars == <<located, containers, all_flights, content, flights, dom, flight_li_class>>
workerVars == <<wpc, wfile, wread, store, calls>>
vars == <<pc, mergeVars, saveVars, runVars, pageVars, workerVars>>

----------------------------------------------------------------------------
(* Bounds *)

\* longest record list a view hands to the merge
MaxView == 2
\* most containers the locator returns
MaxContainers == 32
\* concurrent callers of save_to_excel
NumWorkers == 2
\* calls of save_to_excel each worker makes
MaxCalls == 2
\* longest record list handed to save_to_excel
MaxData == 2
\* most rows of the stored sheet
MaxSheet == 1
\* most containers of a page whose extracted texts vary
MaxOffers == 2

----------------------------------------------------------------------------
(* Texts *)

NA == <<"N", "/", "A">>
EmptyText == <<>>
\* a dict key that is not present (dict.get returns its default)
Missing == <<"<absent>">>

P100 == <<"$", "1", "0", "0">>
P80 == <<"$", "8", "0">>

\* the four fields of the identity key
Keys == { <<"08:00", "10:00", "LHR", "JFK">>, <<"08:00", "12:00", "LHR", "JFK">> }

\* price texts a validated record of a view may carry in the merge model
MergePrices == {P100, P80}

\* a record as scrape_current_page_flights returns it: no "Cheapest Price" yet
ViewRecords ==
    { [DepTime |-> k[1], ArrivalTime |-> k[2], DepAirport |-> k[3], ArrAirport |-> k[4],
       Price |-> p, CheapestPrice |-> Missing] : k \in Keys, p \in MergePrices }

SeqsUpTo(S, n) == UNION { [1..m -> S] : m \in 0..n }

\* flight.get(field, default)
Get(v, default) == IF v = Missing THEN default ELSE v

\* the key tuple built at lines 546-551, 555-560 and 566-571
KeyOf(f) == <<f.DepTime, f.ArrivalTime, f.DepAirport, f.ArrAirport>>

----------------------------------------------------------------------------
(* scrape_flights: the merge, lines 544-581 *)

\* lines 544-552: later records of the cheapest view overwrite earlier ones
RECURSIVE CheapestDict(_, _)
CheapestDict(fs, d) ==
    IF fs = <<>> THEN d
    ELSE LET f == Head(fs)
             k == KeyOf(f)
             entry == [key |-> k, price |-> Get(f.Price, NA)]
             kept == SelectSeq(d, LAMBDA e : e.key # k)
             \* a dict keeps the position of a key that is overwritten; only the
             \* value matters here, so the entry is re-appended
         IN  CheapestDict(Tail(fs), Append(kept, entry))

DictHas(d, k) == \E i \in 1..Len(d) : d[i].key = k

DictGet(d, k, default) ==
    IF DictHas(d, k) THEN d[CHOOSE i \in 1..Len(d) : d[i].key = k].price ELSE default

\* lines 554-561
FillCheapest(fs, d) ==
    [i \in 1..Len(fs) |-> [fs[i] EXCEPT !.CheapestPrice = DictGet(d, KeyOf(fs[i]), NA)]]

\* lines 572-578: the any(...) over all_flights_to_save
InSaved(saved, k) ==
    \E i \in 1..Len(saved) :
        /\ saved[i].DepTime = k[1]
        /\ saved[i].ArrivalTime = k[2]
        /\ saved[i].DepAirport = k[3]
        /\ saved[i].ArrAirport = k[4]

\* a merge that moves the price but leaves "Price" as scraped
AsCheapestOnlyKeepsPrice(cf) ==
    [cf EXCEPT !.CheapestPrice = Get(cf.Price, NA)]

\* lines 579-580
AsCheapestOnly(cf) ==
    [cf EXCEPT !.Price = NA, !.CheapestPrice = Get(cf.Price, NA)]

\* lines 564-581: the pair <<all_flights_to_save, cheapest_flights>> after the loop
\* over cheapest_flights[j..]
RECURSIVE AppendLoop(_, _, _)
AppendLoop(saved, cfs, j) ==
    IF j > Len(cfs) THEN <<saved, cfs>>
    ELSE IF InSaved(saved, KeyOf(cfs[j]))
         THEN AppendLoop(saved, cfs, j + 1)
         ELSE LET cf == AsCheapestOnly(cfs[j])
              IN  AppendLoop(Append(saved, cf), [cfs EXCEPT ![j] = cf], j + 1)

\* save_to_excel has not been entered
SaveIdle ==
    /\ data = <<>>
    /\ combined = <<>>
    /\ bucket_name = FALSE
    /\ s3_object = <<>>
    /\ previous_prices = <<>>
    /\ alerts = <<>>
    /\ EXCEL_LOCK = FALSE
    /\ uploaded = FALSE
    /\ save_failed = FALSE

Workers == 1..NumWorkers
Files == {"LHR_JFK", "LHR_CDG"}

\* the locator's queries are not modelled: no page
NoPage == [generic |-> <<>>, landmark |-> FALSE, li |-> FALSE, classes |-> <<>>]

\* scrape_current_page_flights is not running and no worker pool is modelled
AuxIdle ==
    /\ located = <<>>
    /\ containers = <<>>
    /\ all_flights = <<>>
    /\ content = <<>>
    /\ flights = <<>>
    /\ dom = NoPage
    /\ flight_li_class = <<>>
    /\ wpc = [w \in Workers |-> "idle"]
    /\ wfile = [w \in Workers |-> "LHR_JFK"]
    /\ wread = [w \in Workers |-> 0]
    /\ store = [f \in Files |-> 0]
    /\ calls = [w \in Workers |-> 0]

\* scrape_flights is past its URL check and has raised or returned nothing yet
RunIdle ==
    /\ AuxIdle
    /\ url_google = TRUE
    /\ locator_failed = {}
    /\ flights_saved = FALSE
    /\ result = "pending"

MergeInit ==
    /\ pc = "merge"
    /\ SaveIdle
    /\ RunIdle
    /\ viewA \in SeqsUpTo(ViewRecords, MaxView)
    /\ viewB \in SeqsUpTo(ViewRecords, MaxView)
    /\ initial_flights = viewA
    /\ cheapest_flights = viewB
    /\ cheapest_price_dict = <<>>
    /\ all_flights_to_save = <<>>

BuildCheapestDict ==
    /\ pc = "merge"
    /\ cheapest_price_dict' = CheapestDict(cheapest_flights, <<>>)
    /\ pc' = "fill"
    /\ UNCHANGED <<viewA, viewB, initial_flights, cheapest_flights, all_flights_to_save>>
    /\ UNCHANGED saveVars
    /\ UNCHANGED runVars
    /\ UNCHANGED pageVars
    /\ UNCHANGED workerVars

FillCheapestPrice ==
    /\ pc = "fill"
    /\ initial_flights' = FillCheapest(initial_flights, cheapest_price_dict)
    /\ pc' = "append"
    /\ UNCHANGED <<viewA, viewB, cheapest_flights, cheapest_price_dict, all_flights_to_save>>
    /\ UNCHANGED saveVars
    /\ UNCHANGED runVars
    /\ UNCHANGED pageVars
    /\ UNCHANGED workerVars

AppendCheapestOnly ==
    /\ pc = "append"
    /\ LET r == AppendLoop(initial_flights, cheapest_flights, 1)
       IN  /\ all_flights_to_save' = r[1]
           /\ cheapest_flights' = r[2]
    /\ pc' = "merged"
    /\ UNCHANGED <<viewA, viewB, initial_flights, cheapest_price_dict>>
    /\ UNCHANGED saveVars
    /\ UNCHANGED runVars
    /\ UNCHANGED pageVars
    /\ UNCHANGED workerVars

MergeNext == BuildCheapestDict \/ FillCheapestPrice \/ AppendCheapestOnly

SpecMerge == MergeInit /\ [][MergeNext]_vars

----------------------------------------------------------------------------
(* Properties of the merge *)

KeysIn(fs) == { KeyOf(fs[i]) : i \in 1..Len(fs) }
CountKey(fs, k) == Cardinality({ i \in 1..Len(fs) : KeyOf(fs[i]) = k })
FirstWith(fs, k) == CHOOSE i \in 1..Len(fs) :
                        KeyOf(fs[i]) = k /\ \A j \in 1..(i - 1) : KeyOf(fs[j]) # k
LastWith(fs, k) == CHOOSE i \in 1..Len(fs) :
                       KeyOf(fs[i]) = k /\ \A j \in (i + 1)..Len(fs) : KeyOf(fs[j]) # k

\* C1: once the merge is done, every identity key of the default or the cheapest
\* view appears exactly once in all_flights_to_save, whose length is the number of
\* distinct keys of the two views.
C1_Completeness ==
    pc = "merged" =>
        /\ \A k \in KeysIn(viewA) \cup KeysIn(viewB) : CountKey(all_flights_to_save, k) = 1
        /\ Len(all_flights_to_save) = Cardinality(KeysIn(viewA) \cup KeysIn(viewB))

\* What the merge does keep: every record of the default view, in order, followed by
\* one record for each key that only the cheapest view has.
MergeKeepsDefaultView ==
    pc = "merged" =>
        /\ Len(all_flights_to_save) =
              Len(viewA) + Cardinality(KeysIn(viewB) \ KeysIn(viewA))
        /\ \A i \in 1..Len(viewA) : KeyOf(all_flights_to_save[i]) = KeyOf(viewA[i])
        /\ \A k \in KeysIn(viewB) \ KeysIn(viewA) : CountKey(all_flights_to_save, k) = 1
        /\ KeysIn(all_flights_to_save) = KeysIn(viewA) \cup KeysIn(viewB)

\* C2: in the merged list, a record whose key is in both views has the Price of the
\* default view and, as Cheapest Price, the price the cheapest view has for that key
\* (the last one seen); a record whose key is only in the default view has its Price
\* and Cheapest Price "N/A"; a record whose key is only in the cheapest view has
\* Price "N/A" and, as Cheapest Price, its own price in the cheapest view.  With an
\* empty cheapest view the merged list is the default view with Cheapest Price "N/A".
C2_PriceFields ==
    pc = "merged" =>
        /\ \A i \in 1..Len(all_flights_to_save) :
              LET m == all_flights_to_save[i]
                  k == KeyOf(m)
              IN  IF k \in KeysIn(viewA)
                  THEN /\ i <= Len(viewA)
                       /\ m.Price = viewA[i].Price
                       /\ m.CheapestPrice =
                            IF k \in KeysIn(viewB)
                            THEN viewB[LastWith(viewB, k)].Price
                            ELSE NA
                  ELSE /\ k \in KeysIn(viewB)
                       /\ m.Price = NA
                       /\ m.CheapestPrice = viewB[FirstWith(viewB, k)].Price
        /\ viewB = <<>> =>
              all_flights_to_save =
                  [i \in 1..Len(viewA) |-> [viewA[i] EXCEPT !.CheapestPrice = NA]]

\* a merge in which one key is in both views with different prices, one key is only
\* in the cheapest view and the cheapest view repeats a key
C2_Witness ==
    /\ pc = "merged"
    /\ \E i \in 1..Len(all_flights_to_save) :
          /\ KeyOf(all_flights_to_save[i]) \in KeysIn(viewA) \cap KeysIn(viewB)
          /\ all_flights_to_save[i].Price # all_flights_to_save[i].CheapestPrice
    /\ \E i \in 1..Len(all_flights_to_save) :
          /\ KeyOf(all_flights_to_save[i]) \notin KeysIn(viewA)
          /\ all_flights_to_save[i].Price = NA

----------------------------------------------------------------------------
(* Text and number helpers of save_to_excel *)

\* str() of the float NaN that pandas gives for an empty or "N/A" cell
NaN == <<"n", "a", "n">>
\* dict.get(key) of a key that is not present
None == <<"<None>">>

P50 == <<"$", "5", "0">>
P49_5 == <<"$", "4", "9", ".", "5">>
\* passes the price pattern ^[£$€]\s?\d+ of the validation gate, but float() rejects it
PBad == <<"$", "1", ".", "0", ".", "0">>

DigitChars == <<"0", "1", "2", "3", "4", "5", "6", "7", "8", "9">>
Digit == { DigitChars[i] : i \in 1..Len(DigitChars) }
DigitVal(c) == (CHOOSE i \in 1..Len(DigitChars) : DigitChars[i] = c) - 1

\* re.sub(r"[^\d.]", "", str(val))
StripNonNumeric(t) == SelectSeq(t, LAMBDA c : c \in Digit \cup {"."})

Dots(s) == { i \in 1..Len(s) : s[i] = "." }

\* whether float(s) returns (a digit string with at most one point) or raises ValueError
FloatOK(s) == Cardinality(Dots(s)) <= 1 /\ Len(s) > Cardinality(Dots(s))

RECURSIVE DigitsValue(_)
DigitsValue(s) ==
    IF s = <<>> THEN 0 ELSE DigitsValue(SubSeq(s, 1, Len(s) - 1)) * 10 + DigitVal(s[Len(s)])

\* float(s), in tenths
FloatTenths(s) ==
    LET dot == IF Dots(s) = {} THEN Len(s) + 1 ELSE CHOOSE i \in Dots(s) : TRUE
        whole == SubSeq(s, 1, dot - 1)
        frac == SubSeq(s, dot + 1, Len(s))
    IN  DigitsValue(whole) * 10 + (IF frac = <<>> THEN 0 ELSE DigitVal(frac[1]))

Abs(x) == IF x < 0 THEN -x ELSE x

RECURSIVE DecimalText(_)
DecimalText(n) ==
    IF n < 10 THEN <<DigitChars[n + 1]>>
    ELSE DecimalText(n \div 10) \o <<DigitChars[(n % 10) + 1]>>

\* rounding that takes a tie up
RoundHalfUp(a) == (a + 5) \div 10

\* the rounding of the format specification .0f at lines 311 and 313: to the nearest
\* whole number, ties to the even one; a >= 0 in tenths
RoundHalfEven(a) ==
    LET q == a \div 10
        r == a % 10
    IN  IF r < 5 THEN q
        ELSE IF r > 5 THEN q + 1
        ELSE IF q % 2 = 0 THEN q ELSE q + 1

\* f"{x:.0f}" for x in tenths: the sign is kept even when the digits round to 0
Format0f(x) ==
    (IF x < 0 THEN <<"-">> ELSE <<>>) \o DecimalText(RoundHalfEven(Abs(x)))

\* Python truthiness of a cell value: None and "" are false, NaN and other texts true
Truthy(v) == v # None /\ v # EmptyText

----------------------------------------------------------------------------
(* save_to_excel, lines 218-375 *)

\* TELEGRAM_ALERT_THRESHOLD, in thousandths (0.01)
TELEGRAM_ALERT_THRESHOLD == 10

\* a Min Price is <<v>> for the float v (in tenths) or <<>> for float('inf')
Infinity == <<>>

Min(S) == CHOOSE x \in S : \A y \in S : x <= y

\* a Min Price that looks at the "Price" column alone
get_min_price_PriceOnly(row) ==
    IF row.Price # NA /\ Truthy(row.Price) /\ FloatOK(StripNonNumeric(row.Price))
    THEN <<FloatTenths(StripNonNumeric(row.Price))>>
    ELSE <<>>

\* lines 231-241
get_min_price(row) ==
    LET cols == <<row.Price, row.CheapestPrice>>
        good == { i \in 1..2 : /\ cols[i] # NA
                               /\ Truthy(cols[i])
                               /\ FloatOK(StripNonNumeric(cols[i])) }
        prices == { FloatTenths(StripNonNumeric(cols[i])) : i \in good }
    IN  IF prices # {} THEN <<Min(prices)>> ELSE Infinity

\* the order of sort_values on the Min Price column
MinPriceLE(a, b) ==
    IF b = Infinity THEN TRUE ELSE IF a = Infinity THEN FALSE ELSE a[1] <= b[1]

\* lines 225-229: one row per record, labelled 0, 1, ... in list order; a column no
\* record has is filled with "N/A"
Frame(d) ==
    [i \in 1..Len(d) |->
        [idx |-> i - 1,
         DepTime |-> d[i].DepTime, ArrivalTime |-> d[i].ArrivalTime,
         DepAirport |-> d[i].DepAirport, ArrAirport |-> d[i].ArrAirport,
         Price |-> Get(d[i].Price, NA),
         CheapestPrice |-> Get(d[i].CheapestPrice, NA),
         PriceChange |-> NA]]

IndexOrders(n) == { f \in [1..n -> 1..n] : \A i, j \in 1..n : f[i] = f[j] => i = j }

\* lines 243-244: sort_values uses quicksort, which is not stable, so rows with equal
\* Min Price may come out in any order
SortedFrames(df) ==
    { [i \in 1..Len(df) |-> df[f[i]]] : f \in
        { g \in IndexOrders(Len(df)) :
            \A i \in 1..(Len(df) - 1) :
                MinPriceLE(get_min_price(df[g[i]]), get_min_price(df[g[i + 1]])) } }

\* pandas.read_excel at line 288: an empty or "N/A" cell is read as NaN
ReadCell(t) == IF t \in {NA, EmptyText} THEN NaN ELSE t

\* lines 290-292: later rows of the sheet overwrite earlier ones
RECURSIVE PreviousPrices(_, _)
PreviousPrices(sheet, d) ==
    IF sheet = <<>> THEN d
    ELSE LET r == Head(sheet)
             k == KeyOf(r)
             kept == SelectSeq(d, LAMBDA e : e.key # k)
         IN  PreviousPrices(Tail(sheet), Append(kept, [key |-> k, price |-> ReadCell(r.Price)]))

\* a threshold test that also fires on a drop of exactly the threshold
ExceedsThresholdInclusive(price_diff, prev_val) ==
    Abs(price_diff) * 1000 >= prev_val * 10

\* line 314, with both floats in tenths
ExceedsThreshold(price_diff, prev_val) ==
    Abs(price_diff) * 1000 > prev_val * TELEGRAM_ALERT_THRESHOLD

\* lines 300-322 for one row: the row as annotated and whether an alert was sent
DiffRow(row, prev) ==
    LET key == KeyOf(row)
        prev_price == DictGet(prev, key, None)
        curr_price == row.Price
        prev_s == StripNonNumeric(prev_price)
        curr_s == StripNonNumeric(curr_price)
        prev_val == FloatTenths(prev_s)
        curr_val == FloatTenths(curr_s)
        price_diff == curr_val - prev_val
        blank == [row |-> [row EXCEPT !.PriceChange = EmptyText], alert |-> FALSE]
    IN  IF Truthy(prev_price) /\ Truthy(curr_price) /\ prev_price # NA /\ curr_price # NA
        THEN IF ~(FloatOK(prev_s) /\ FloatOK(curr_s))
             THEN blank                       \* ValueError, lines 319-320
             ELSE IF price_diff > 0
             THEN [row |-> [row EXCEPT !.PriceChange = <<"+">> \o Format0f(price_diff)],
                   alert |-> FALSE]
             ELSE IF price_diff < 0
             THEN IF prev_val = 0
                  THEN blank                  \* ZeroDivisionError, lines 319-320
                  ELSE [row |-> [row EXCEPT !.PriceChange = Format0f(price_diff)],
                        alert |-> ExceedsThreshold(price_diff, prev_val)]
             ELSE blank
        ELSE blank

\* lines 298-299: idx is the index label of the row, the position its record had in the
\* list handed to save_to_excel; sort_values keeps the labels
IsSkipped(rows, i) == rows[i].idx = 0

\* lines 297-322: the loop over the rows in ranked order; the row labelled 0 is skipped
RECURSIVE DiffLoop(_, _, _, _)
DiffLoop(rows, prev, sent, i) ==
    IF i > Len(rows) THEN <<rows, sent>>
    ELSE IF IsSkipped(rows, i)
         THEN DiffLoop(rows, prev, sent, i + 1)
         ELSE LET r == DiffRow(rows[i], prev)
              IN  DiffLoop([rows EXCEPT ![i] = r.row], prev,
                           IF r.alert THEN Append(sent, rows[i].idx) ELSE sent, i + 1)

\* the columns of the written sheet that a later run reads back
SheetOf(rows) ==
    [i \in 1..Len(rows) |->
        [DepTime |-> rows[i].DepTime, ArrivalTime |-> rows[i].ArrivalTime,
         DepAirport |-> rows[i].DepAirport, ArrAirport |-> rows[i].ArrAirport,
         Price |-> rows[i].Price]]

\* lines 225-244
Rank ==
    /\ pc = "save"
    /\ combined' \in SortedFrames(Frame(data))
    /\ pc' = "lock"
    /\ UNCHANGED <<data, bucket_name, s3_object, previous_prices, alerts, EXCEL_LOCK,
                   uploaded, save_failed>>
    /\ UNCHANGED mergeVars
    /\ UNCHANGED runVars
    /\ UNCHANGED pageVars
    /\ UNCHANGED workerVars

\* line 274
AcquireLock ==
    /\ pc = "lock"
    /\ EXCEL_LOCK = FALSE
    /\ EXCEL_LOCK' = TRUE
    /\ pc' = "read"
    /\ UNCHANGED <<data, combined, bucket_name, s3_object, previous_prices, alerts,
                   uploaded, save_failed>>
    /\ UNCHANGED mergeVars
    /\ UNCHANGED runVars
    /\ UNCHANGED pageVars
    /\ UNCHANGED workerVars

\* lines 276-294: get_object or read_excel may raise; the exception is swallowed
ReadSnapshot ==
    /\ pc = "read"
    /\ \E read_ok \in BOOLEAN :
          previous_prices' =
              IF bucket_name /\ s3_object # <<>> /\ read_ok
              THEN PreviousPrices(s3_object[1], <<>>)
              ELSE <<>>
    /\ pc' = "diff"
    /\ UNCHANGED <<data, combined, bucket_name, s3_object, alerts, EXCEL_LOCK,
                   uploaded, save_failed>>
    /\ UNCHANGED mergeVars
    /\ UNCHANGED runVars
    /\ UNCHANGED pageVars
    /\ UNCHANGED workerVars

\* lines 296-322
ProcessPriceChanges ==
    /\ pc = "diff"
    /\ LET r == DiffLoop(combined, previous_prices, <<>>, 1)
       IN  /\ combined' = r[1]
           /\ alerts' = r[2]
    /\ pc' = "write"
    /\ UNCHANGED <<data, bucket_name, s3_object, previous_prices, EXCEL_LOCK,
                   uploaded, save_failed>>
    /\ UNCHANGED mergeVars
    /\ UNCHANGED runVars
    /\ UNCHANGED pageVars
    /\ UNCHANGED workerVars

\* lines 324-375: writing the workbook or the upload may raise, and the upload does
\* raise without a bucket name; the exception is printed and swallowed
WriteAndUpload ==
    /\ pc = "write"
    /\ \E ok \in BOOLEAN :
          IF ok /\ bucket_name
          THEN /\ s3_object' = <<SheetOf(combined)>>
               /\ uploaded' = TRUE
               /\ UNCHANGED save_failed
          ELSE /\ save_failed' = TRUE
               /\ UNCHANGED <<s3_object, uploaded>>
    /\ pc' = "unlock"
    /\ UNCHANGED <<data, combined, bucket_name, previous_prices, alerts, EXCEL_LOCK>>
    /\ UNCHANGED mergeVars
    /\ UNCHANGED runVars
    /\ UNCHANGED pageVars
    /\ UNCHANGED workerVars

\* the end of the with block opened at line 274
ReleaseLock ==
    /\ pc = "unlock"
    /\ EXCEL_LOCK' = FALSE
    /\ pc' = "saved"
    /\ UNCHANGED <<data, combined, bucket_name, s3_object, previous_prices, alerts,
                   uploaded, save_failed>>
    /\ UNCHANGED mergeVars
    /\ UNCHANGED runVars
    /\ UNCHANGED pageVars
    /\ UNCHANGED workerVars

\* the <<Price, Cheapest Price>> pairs of the records handed to save_to_excel: a key in
\* both views, a key of the default view alone (with a price float() accepts and with
\* one it rejects) and a key of the cheapest view alone, whose "Price" is "N/A"
SavePricePairs ==
    { <<P100, P80>>, <<P49_5, P80>>, <<P100, NA>>, <<PBad, NA>>, <<NA, P80>> }

\* records as the merge hands them to save_to_excel
SaveRecords ==
    { [DepTime |-> k[1], ArrivalTime |-> k[2], DepAirport |-> k[3], ArrAirport |-> k[4],
       Price |-> pp[1], CheapestPrice |-> pp[2]] : k \in Keys, pp \in SavePricePairs }

\* rows of a sheet a previous run stored
SheetRows ==
    [DepTime : {k[1] : k \in Keys}, ArrivalTime : {k[2] : k \in Keys},
     DepAirport : {k[3] : k \in Keys}, ArrAirport : {k[4] : k \in Keys},
     Price : {P100, P50, NA}]

SaveInit ==
    /\ pc = "save"
    /\ viewA = <<>>
    /\ viewB = <<>>
    /\ initial_flights = <<>>
    /\ cheapest_flights = <<>>
    /\ cheapest_price_dict = <<>>
    /\ all_flights_to_save = <<>>
    /\ data \in SeqsUpTo(SaveRecords, MaxData) \ {<<>>}
    /\ combined = <<>>
    /\ bucket_name \in BOOLEAN
    /\ s3_object \in {<<>>} \cup { <<sh>> : sh \in SeqsUpTo(SheetRows, MaxSheet) }
    /\ bucket_name = FALSE => s3_object = <<>>
    /\ previous_prices = <<>>
    /\ alerts = <<>>
    /\ EXCEL_LOCK = FALSE
    /\ uploaded = FALSE
    /\ save_failed = FALSE
    /\ RunIdle

SaveNext ==
    \/ Rank
    \/ AcquireLock
    \/ ReadSnapshot
    \/ ProcessPriceChanges
    \/ WriteAndUpload
    \/ ReleaseLock

SpecSave == SaveInit /\ [][SaveNext]_vars

----------------------------------------------------------------------------
(* scrape_flights, lines 463-603 *)

\* lines 464-466
CheckUrl ==
    /\ pc = "start"
    /\ IF url_google
       THEN pc' = "default" /\ UNCHANGED result
       ELSE pc' = "returned" /\ result' = "False"
    /\ UNCHANGED <<url_google, locator_failed, flights_saved>>
    /\ UNCHANGED mergeVars
    /\ UNCHANGED saveVars
    /\ UNCHANGED pageVars
    /\ UNCHANGED workerVars

\* line 522: the call is inside the try/finally only, so an exception raised by
\* get_flight_container_class or get_flight_containers_by_detected_class (lines
\* 410-411) leaves scrape_flights
ScrapeDefault ==
    /\ pc = "default"
    /\ \/ /\ \E fs \in SeqsUpTo(ViewRecords, MaxView) :
                /\ initial_flights' = fs
                /\ viewA' = fs
          /\ pc' = "cheapest"
          /\ UNCHANGED locator_failed
       \/ /\ locator_failed' = locator_failed \cup {"default"}
          /\ pc' = "raised"
          /\ UNCHANGED <<initial_flights, viewA>>
    /\ UNCHANGED <<viewB, cheapest_flights, cheapest_price_dict, all_flights_to_save>>
    /\ UNCHANGED <<url_google, flights_saved, result>>
    /\ UNCHANGED saveVars
    /\ UNCHANGED pageVars
    /\ UNCHANGED workerVars

\* lines 524-542: a missing "Cheapest" button and any exception of the second scrape
\* are caught, and cheapest_flights stays empty
ScrapeCheapest ==
    /\ pc = "cheapest"
    /\ \/ /\ \E fs \in SeqsUpTo(ViewRecords, MaxView) :
                /\ cheapest_flights' = fs
                /\ viewB' = fs
          /\ UNCHANGED locator_failed
       \/ /\ locator_failed' = locator_failed \cup {"cheapest"}
          /\ UNCHANGED <<cheapest_flights, viewB>>
       \/ UNCHANGED <<cheapest_flights, viewB, locator_failed>>   \* TimeoutException, line 539
    /\ pc' = "merge"
    /\ UNCHANGED <<viewA, initial_flights, cheapest_price_dict, all_flights_to_save>>
    /\ UNCHANGED <<url_google, flights_saved, result>>
    /\ UNCHANGED saveVars
    /\ UNCHANGED pageVars
    /\ UNCHANGED workerVars

\* lines 583-587
CallSave ==
    /\ pc = "merged"
    /\ IF all_flights_to_save # <<>>
       THEN data' = all_flights_to_save /\ pc' = "save"
       ELSE UNCHANGED data /\ pc' = "finally"
    /\ UNCHANGED <<combined, bucket_name, s3_object, previous_prices, alerts, EXCEL_LOCK,
                   uploaded, save_failed>>
    /\ UNCHANGED mergeVars
    /\ UNCHANGED runVars
    /\ UNCHANGED pageVars
    /\ UNCHANGED workerVars

\* lines 588-589: save_to_excel returned, which it does whatever happened inside its
\* try block
SaveReturned ==
    /\ pc = "saved"
    /\ flights_saved' = TRUE
    /\ pc' = "finally"
    /\ UNCHANGED <<url_google, locator_failed, result>>
    /\ UNCHANGED mergeVars
    /\ UNCHANGED saveVars
    /\ UNCHANGED pageVars
    /\ UNCHANGED workerVars

\* lines 593-603
Return ==
    /\ pc = "finally"
    /\ result' = IF flights_saved THEN "True" ELSE "False"
    /\ pc' = "returned"
    /\ UNCHANGED <<url_google, locator_failed, flights_saved>>
    /\ UNCHANGED mergeVars
    /\ UNCHANGED saveVars
    /\ UNCHANGED pageVars
    /\ UNCHANGED workerVars

Init ==
    /\ pc = "start"
    /\ viewA = <<>>
    /\ viewB = <<>>
    /\ initial_flights = <<>>
    /\ cheapest_flights = <<>>
    /\ cheapest_price_dict = <<>>
    /\ all_flights_to_save = <<>>
    /\ data = <<>>
    /\ combined = <<>>
    /\ bucket_name \in BOOLEAN
    /\ s3_object \in {<<>>} \cup { <<sh>> : sh \in SeqsUpTo(SheetRows, MaxSheet) }
    /\ bucket_name = FALSE => s3_object = <<>>
    /\ previous_prices = <<>>
    /\ alerts = <<>>
    /\ EXCEL_LOCK = FALSE
    /\ uploaded = FALSE
    /\ save_failed = FALSE
    /\ url_google \in BOOLEAN
    /\ locator_failed = {}
    /\ flights_saved = FALSE
    /\ result = "pending"
    /\ AuxIdle

Next ==
    \/ CheckUrl
    \/ ScrapeDefault
    \/ ScrapeCheapest
    \/ BuildCheapestDict
    \/ FillCheapestPrice
    \/ AppendCheapestOnly
    \/ CallSave
    \/ Rank
    \/ AcquireLock
    \/ ReadSnapshot
    \/ ProcessPriceChanges
    \/ WriteAndUpload
    \/ ReleaseLock
    \/ SaveReturned
    \/ Return

Spec == Init /\ [][Next]_vars

\* C6: scrape_flights returns True only if the snapshot was uploaded; when writing or
\* uploading it failed, scrape_flights returns False.
C6_FailureReported ==
    pc = "returned" =>
        /\ result = "True" => uploaded
        /\ save_failed => result = "False"

\* C7: a container locator failure in either view never leaves scrape_flights as an
\* exception: the run goes on to merge and save with the other view's records.
C7_ViewFailureIsolated ==
    locator_failed # {} => pc # "raised"

\* What does hold: a locator failure in the cheapest view is caught.
CheapestFailureIsolated ==
    locator_failed = {"cheapest"} => (pc # "raised" /\ cheapest_flights = <<>>)

----------------------------------------------------------------------------
(* Properties of save_to_excel *)

\* the price-change loop has run
AfterDiff == pc \in {"write", "unlock", "saved"}

\* the cell values that occur in the model
CellTexts == {P100, P80, P50, P49_5, PBad, NA, NaN, None, EmptyText}

\* the number each cell value stands for, in tenths: <<v>>, or <<>> when the value is
\* missing, empty, "N/A", NaN or has no digits or more than one point
ParsedCell ==
    [t \in CellTexts |->
        IF t \notin {None, EmptyText, NA, NaN} /\ FloatOK(StripNonNumeric(t))
        THEN <<FloatTenths(StripNonNumeric(t))>>
        ELSE <<>>]

\* a cell holds a price that parses as a number
Numeric(t) == ParsedCell[t] # <<>>

\* that number, in tenths
Value(t) == ParsedCell[t][1]

\* the previous price of a row: the one the snapshot that was read has under its key
Previous(row) == DictGet(previous_prices, KeyOf(row), None)

Diffed == { i \in 1..Len(combined) : combined[i].idx # 0 }

AlertCount(label) == Cardinality({ j \in 1..Len(alerts) : alerts[j] = label })

\* both prices numeric, a drop, and the drop over the previous price above the threshold
ShouldAlert(row) ==
    /\ Numeric(Previous(row))
    /\ Numeric(row.Price)
    /\ Value(row.Price) - Value(Previous(row)) < 0
    /\ (Value(Previous(row)) - Value(row.Price)) * 1000
          > Value(Previous(row)) * TELEGRAM_ALERT_THRESHOLD

\* C3: after the price-change loop, every diffed row (every row but the skipped one) has
\* had exactly one alert sent if both its previous and current price are numeric, the
\* price fell and the fall over the previous price is above TELEGRAM_ALERT_THRESHOLD,
\* and none otherwise; no other alert was sent.
C3_AlertExactness ==
    AfterDiff =>
        /\ \A i \in Diffed :
              AlertCount(combined[i].idx) = IF ShouldAlert(combined[i]) THEN 1 ELSE 0
        /\ Len(alerts) = Cardinality({ i \in Diffed : ShouldAlert(combined[i]) })

\* an alert was sent for a diffed row
C3_Witness ==
    /\ AfterDiff
    /\ \E i \in Diffed : ShouldAlert(combined[i]) /\ AlertCount(combined[i].idx) = 1

\* a diffed row whose price fell by exactly the threshold, or rose, got no alert
C3_WitnessQuiet ==
    /\ AfterDiff
    /\ alerts = <<>>
    /\ \E i \in Diffed :
          /\ Numeric(Previous(combined[i]))
          /\ Numeric(combined[i].Price)
          /\ Value(combined[i].Price) < Value(Previous(combined[i]))

\* the whole number nearest to a >= 0 (in tenths), the even one of two equally near
NearestWhole(a) ==
    CHOOSE n \in 0..(a \div 10 + 1) :
        \/ Abs(10 * n - a) < 5
        \/ Abs(10 * n - a) = 5 /\ n % 2 = 0

\* the text of a signed difference d (in tenths), rounded to a whole number
ChangeText(d) ==
    IF d > 0 THEN <<"+">> \o DecimalText(NearestWhole(d))
    ELSE IF d < 0 THEN <<"-">> \o DecimalText(NearestWhole(-d))
    ELSE EmptyText

\* C4 (as amended): after the price-change loop, the Price Change of every diffed row
\* whose previous and current price are both numeric is the difference current -
\* previous rounded to the nearest whole number (ties to the even one), with a leading
\* "+" when the difference is positive, a leading "-" when it is negative, and the
\* empty text when it is zero; it is the empty text when the key is not in the
\* snapshot or either price is missing, "N/A" or not numeric.
C4_PriceChange ==
    AfterDiff =>
        \A i \in Diffed :
            LET row == combined[i]
            IN  row.PriceChange =
                    IF Numeric(Previous(row)) /\ Numeric(row.Price)
                    THEN ChangeText(Value(row.Price) - Value(Previous(row)))
                    ELSE EmptyText

\* a diffed row with a rise and a diffed row with a fall were annotated
C4_Witness ==
    /\ AfterDiff
    /\ \E i \in Diffed :
          /\ Numeric(Previous(combined[i]))
          /\ Numeric(combined[i].Price)
          /\ Value(combined[i].Price) < Value(Previous(combined[i]))
          /\ Head(combined[i].PriceChange) = "-"

\* the number (in tenths) a Price Change text denotes
SignedValue(t) ==
    IF t = EmptyText THEN 0
    ELSE IF Head(t) = "-" THEN -FloatTenths(Tail(t))
    ELSE FloatTenths(Tail(t))

\* C4 (as stated): the Price Change of a diffed row with two numeric prices is the
\* signed difference current - previous itself.
C4_ExactDifference ==
    AfterDiff =>
        \A i \in Diffed :
            LET row == combined[i]
            IN  Numeric(Previous(row)) /\ Numeric(row.Price) =>
                    SignedValue(row.PriceChange) = Value(row.Price) - Value(Previous(row))

\* C5: when no previous snapshot could be read, every row of the saved set, the first
\* one included, ends with an empty Price Change and no alert is sent.
C5_NoSnapshotAllEmpty ==
    (pc = "write" /\ (bucket_name = FALSE \/ s3_object = <<>>)) =>
        /\ \A i \in 1..Len(combined) : combined[i].PriceChange = EmptyText
        /\ alerts = <<>>

\* What does hold without a snapshot: every diffed row is blank and no alert is sent.
NoSnapshotDiffedEmpty ==
    (pc = "write" /\ (bucket_name = FALSE \/ s3_object = <<>>)) =>
        /\ \A i \in Diffed : combined[i].PriceChange = EmptyText
        /\ alerts = <<>>

\* the parseable prices of a row
KnownPrices(row) ==
    { Value(t) : t \in { u \in {row.Price, row.CheapestPrice} : Numeric(u) } }

\* ascending minimum known price, a row without a known price counting as infinite
RankedBefore(a, b) ==
    \/ KnownPrices(b) = {}
    \/ /\ KnownPrices(a) # {}
       /\ Min(KnownPrices(a)) <= Min(KnownPrices(b))

\* C9: once ranked, the rows are the records handed in, each once, in ascending order
\* of the smaller of their parseable Price and Cheapest Price; a row with no parseable
\* price comes after every row that has one.
C9_Ranking ==
    pc # "save" =>
        /\ Len(combined) = Len(data)
        /\ { combined[i].idx : i \in 1..Len(combined) } = 0..(Len(data) - 1)
        /\ \A i \in 1..Len(combined) :
              LET d == data[combined[i].idx + 1]
              IN  /\ KeyOf(combined[i]) = KeyOf(d)
                  /\ combined[i].Price = d.Price
                  /\ combined[i].CheapestPrice = d.CheapestPrice
        /\ \A i, j \in 1..Len(combined) :
              i < j => RankedBefore(combined[i], combined[j])
        /\ \A i, j \in 1..Len(combined) :
              (KnownPrices(combined[i]) = {} /\ KnownPrices(combined[j]) # {}) => j < i

\* a record without a parseable price was handed in first and is ranked last
C9_Witness ==
    /\ pc = "lock"
    /\ Len(combined) > 1
    /\ KnownPrices(combined[Len(combined)]) = {}
    /\ combined[Len(combined)].idx = 0
    /\ KnownPrices(combined[1]) # {}

----------------------------------------------------------------------------
(* scrape_current_page_flights, lines 403-442 *)

\* no scrape_flights run is in progress
MergeIdle ==
    /\ viewA = <<>>
    /\ viewB = <<>>
    /\ initial_flights = <<>>
    /\ cheapest_flights = <<>>
    /\ cheapest_price_dict = <<>>
    /\ all_flights_to_save = <<>>

\* the default of the max_flights parameter, line 403
max_flights == 15

\* lines 419-422 without the added one: int(n / 2)
HalfOnly(n) == n \div 2

\* lines 419-422: int(n / 2 + 1) for even n, int(n / 2 + 1.5) for odd n
HalfPlusOne(n) == IF n % 2 = 0 THEN n \div 2 + 1 ELSE (n + 3) \div 2

\* lines 419-424
MaxIdx(n) == IF HalfPlusOne(n) > max_flights THEN max_flights ELSE HalfPlusOne(n)

\* containers[:max_idx], line 426
Slice(cs, max_idx) == SubSeq(cs, 1, IF max_idx > Len(cs) THEN Len(cs) ELSE max_idx)

\* lines 410-412: get_flight_containers_by_detected_class raises when the query
\* returns nothing
LocateContainers ==
    /\ pc = "locate"
    /\ IF located = <<>>
       THEN pc' = "page_raised" /\ UNCHANGED containers
       ELSE pc' = "bound" /\ containers' = located
    /\ UNCHANGED <<located, all_flights, content, flights, dom, flight_li_class>>
    /\ UNCHANGED <<mergeVars, saveVars, runVars, workerVars>>

\* lines 414-426
BoundContainers ==
    /\ pc = "bound"
    /\ IF Len(containers) = 0
       THEN pc' = "page_returned" /\ UNCHANGED containers
       ELSE pc' = "extract" /\ containers' = Slice(containers, MaxIdx(Len(containers)))
    /\ UNCHANGED <<located, all_flights, content, flights, dom, flight_li_class>>
    /\ UNCHANGED <<mergeVars, saveVars, runVars, workerVars>>

\* lines 430-440, one iteration
ExtractOne ==
    /\ pc = "extract"
    /\ Len(all_flights) < Len(containers)
    /\ all_flights' = Append(all_flights, containers[Len(all_flights) + 1])
    /\ UNCHANGED <<pc, located, containers, content, flights, dom, flight_li_class>>
    /\ UNCHANGED <<mergeVars, saveVars, runVars, workerVars>>

\* line 442: the loop is over
ExtractDone ==
    /\ pc = "extract"
    /\ Len(all_flights) = Len(containers)
    /\ pc' = "extracted"
    /\ UNCHANGED pageVars
    /\ UNCHANGED <<mergeVars, saveVars, runVars, workerVars>>

\* white space, as str.strip() removes it and as \s matches it; "nbsp" stands for the
\* no-break space U+00A0
Whitespace == {" ", "nbsp"}

UpperChars == <<"A", "B", "C", "D", "E", "F", "G", "H", "I", "J", "K", "L", "M",
                "N", "O", "P", "Q", "R", "S", "T", "U", "V", "W", "X", "Y", "Z">>
LowerChars == <<"a", "b", "c", "d", "e", "f", "g", "h", "i", "j", "k", "l", "m",
                "n", "o", "p", "q", "r", "s", "t", "u", "v", "w", "x", "y", "z">>

LowerChar(c) ==
    IF \E i \in 1..26 : UpperChars[i] = c
    THEN LowerChars[CHOOSE i \in 1..26 : UpperChars[i] = c]
    ELSE c

\* str.lower(), line 446
Lower(t) == [i \in 1..Len(t) |-> LowerChar(t[i])]

RECURSIVE LStrip(_)
LStrip(t) == IF t # <<>> /\ t[1] \in Whitespace THEN LStrip(Tail(t)) ELSE t

RECURSIVE RStrip(_)
RStrip(t) ==
    IF t # <<>> /\ t[Len(t)] \in Whitespace THEN RStrip(SubSeq(t, 1, Len(t) - 1)) ELSE t

\* str.strip(), lines 444-445
Strip(t) == RStrip(LStrip(t))

\* str(flight.get(key, "")), lines 444-445
StrGet(v) == Get(v, EmptyText)

Drop(t, n) == SubSeq(t, n + 1, Len(t))

StartsWith(t, p) == Len(t) >= Len(p) /\ SubSeq(t, 1, Len(p)) = p

\* the length of the run of digits \d+ takes (greedy; what follows it in both patterns
\* is not a digit, so no shorter run can match)
RECURSIVE LeadingDigits(_)
LeadingDigits(t) ==
    IF t # <<>> /\ t[1] \in Digit THEN 1 + LeadingDigits(Tail(t)) ELSE 0

\* \s? : one white space is taken if there is one (what follows \s? in both patterns
\* is not white space)
SkipSpace(t) == IF t # <<>> /\ t[1] \in Whitespace THEN Tail(t) ELSE t

\* (co2e?|co₂e?)$ ; "sub2" stands for the subscript two U+2082
Co2Units == { <<"c", "o", "2">>, <<"c", "o", "2", "e">>,
              <<"c", "o", "sub2">>, <<"c", "o", "sub2", "e">> }

\* re.match(r"^\d+\s?kg\s?(co2e?|co₂e?)$", t), line 446; t is stripped, so the $ cannot
\* match before a final newline
Co2Pattern(t) ==
    LET d == LeadingDigits(t)
        a == SkipSpace(Drop(t, d))
        b == SkipSpace(Drop(a, 2))
    IN  /\ d >= 1
        /\ StartsWith(a, <<"k", "g">>)
        /\ b \in Co2Units

\* [£$€] ; "pound" and "euro" stand for the two signs outside ASCII
Currency == {"$", "pound", "euro"}

\* re.match(r"^[£$€]\s?\d+", t), line 447: a match of a prefix
PricePattern(t) ==
    /\ t # <<>>
    /\ t[1] \in Currency
    /\ LeadingDigits(SkipSpace(Tail(t))) >= 1

\* line 446
co2_valid(co2_value) == Co2Pattern(Lower(co2_value))

\* line 447
price_valid(price_value) == PricePattern(price_value)

\* a gate that lets a record through on one well-formed field
GateEither(c, p) == c \/ p

\* line 449: if co2_valid and price_valid
GateAccepts(c, p) == c /\ p

\* CO2 Emissions texts of the containers of a page
C120 == <<"1", "2", "0", " ", "k", "g", " ", "C", "O", "2", "e">>
CPadded == <<" ", "9", "8", "k", "g", "nbsp", "C", "O", "sub2", " ">>
CTwoSpaces == <<"1", "2", "0", " ", " ", "k", "g", " ", "C", "O", "2", "e">>
Co2Texts == {C120, CPadded, CTwoSpaces, NA, Missing}

\* Price texts of the containers of a page
PPadded == <<" ", "$", " ", "8", "0", " ">>
PNoCurrency == <<"1", "0", "0">>
PFrom == <<"$", "1", "0", "0", " ", "p", "p">>
PriceTexts == {P100, PPadded, PNoCurrency, PFrom, Missing}

\* lines 432, 444-445: the two fields of the dict extract_flight_data returns that the
\* validation reads; Missing is a key the dict does not have
ContainerRecords == [CO2 : Co2Texts, Price : PriceTexts]

\* a container holding an offer with both fields well formed
GenuineOffer == [CO2 |-> C120, Price |-> P100]

\* lines 443-453: the loop over all_flights
RECURSIVE ValidateLoop(_, _, _)
ValidateLoop(fs, out, i) ==
    IF i > Len(fs) THEN out
    ELSE LET flight == content[fs[i]]
             co2_value == Strip(StrGet(flight.CO2))
             price_value == Strip(StrGet(flight.Price))
         IN  IF GateAccepts(co2_valid(co2_value), price_valid(price_value))
             THEN ValidateLoop(fs, Append(out, [flight EXCEPT !.CO2 = co2_value,
                                                              !.Price = price_value]), i + 1)
             ELSE ValidateLoop(fs, out, i + 1)

\* lines 443-460: the validation loop; the list is returned at line 460
Validate ==
    /\ pc = "extracted"
    /\ flights' = ValidateLoop(all_flights, <<>>, 1)
    /\ pc' = "page_returned"
    /\ UNCHANGED <<located, containers, all_flights, content, dom, flight_li_class>>
    /\ UNCHANGED <<mergeVars, saveVars, runVars, workerVars>>

PageInit ==
    /\ pc = "locate"
    /\ MergeIdle
    /\ SaveIdle
    /\ url_google = TRUE
    /\ locator_failed = {}
    /\ flights_saved = FALSE
    /\ result = "pending"
    /\ located \in { [i \in 1..n |-> i] : n \in 0..MaxContainers }
    /\ content = [i \in 1..Len(located) |-> GenuineOffer]
    /\ containers = <<>>
    /\ all_flights = <<>>
    /\ flights = <<>>
    /\ dom = NoPage
    /\ flight_li_class = <<>>
    /\ wpc = [w \in Workers |-> "idle"]
    /\ wfile = [w \in Workers |-> "LHR_JFK"]
    /\ wread = [w \in Workers |-> 0]
    /\ store = [f \in Files |-> 0]
    /\ calls = [w \in Workers |-> 0]

PageNext == LocateContainers \/ BoundContainers \/ ExtractOne \/ ExtractDone \/ Validate

SpecPage == PageInit /\ [][PageNext]_vars

\* scrape_current_page_flights on a page of a few containers of any content
ValidateInit ==
    /\ pc = "locate"
    /\ MergeIdle
    /\ SaveIdle
    /\ url_google = TRUE
    /\ locator_failed = {}
    /\ flights_saved = FALSE
    /\ result = "pending"
    /\ located \in { [i \in 1..n |-> i] : n \in 0..MaxOffers }
    /\ content \in [1..Len(located) -> ContainerRecords]
    /\ containers = <<>>
    /\ all_flights = <<>>
    /\ flights = <<>>
    /\ dom = NoPage
    /\ flight_li_class = <<>>
    /\ wpc = [w \in Workers |-> "idle"]
    /\ wfile = [w \in Workers |-> "LHR_JFK"]
    /\ wread = [w \in Workers |-> 0]
    /\ store = [f \in Files |-> 0]
    /\ calls = [w \in Workers |-> 0]

SpecValidate == ValidateInit /\ [][PageNext]_vars

CeilHalf(n) == (n + 1) \div 2

Least(S) == CHOOSE x \in S : \A y \in S : x <= y

\* C10 (as stated): for n >= 1 located containers exactly ceil(n/2)+1, capped at 15,
\* are extracted.
C10_ExactlyHalfPlusOne ==
    pc = "extracted" =>
        Len(all_flights) = Least({CeilHalf(Len(located)) + 1, 15})

\* C10 (as amended): for n >= 1 located containers the number extracted is the least of
\* n, ceil(n/2)+1 and 15: ceil(n/2)+1 capped at 15 for every n >= 2, and the single
\* container for n = 1; the extracted ones are the first in page order, and there are
\* never more than 15.
C10_Bounding ==
    /\ pc \in {"extract", "extracted"} =>
          /\ Len(containers) = Least({Len(located), CeilHalf(Len(located)) + 1, 15})
          /\ containers = SubSeq(located, 1, Len(containers))
    /\ Len(all_flights) <= 15
    /\ pc = "extracted" => all_flights = containers

\* the cap applies: 30 containers located, 15 extracted
C10_Witness ==
    /\ pc = "extracted"
    /\ Len(located) = 30
    /\ Len(all_flights) = 15

\* below the cap: 10 containers located, 6 extracted
C10_WitnessTen ==
    /\ pc = "extracted"
    /\ Len(located) = 10
    /\ Len(all_flights) = 6

----------------------------------------------------------------------------
(* The container locator: get_flight_containers, lines 189-203, and               *)
(* get_flight_container_class and get_flight_containers_by_detected_class,        *)
(* lines 378-400, as scrape_current_page_flights calls them at lines 410-411      *)

\* lines 190-196: the generic selectors, in the order of the list
selectors == <<"li[role='listitem']", "div[data-testid=offer-listing]",
               "div[jscontroller=yCwSd]", "div[role=option]", "div[role=group]">>

\* the elements each generic selector matches on a page where it matches any: list
\* items for the first, div elements for the others
GenericHit == << <<1, 2>>, <<3>>, <<3, 4>>, <<4>>, <<3, 4, 5>> >>

\* what find_elements returns for each of the selectors on a page
GenericPages ==
    { [k \in 1..Len(selectors) |-> IF k \in S THEN GenericHit[k] ELSE <<>>] :
          S \in SUBSET (1..Len(selectors)) }

\* class tokens of the list item after the landmark
TokFive == <<"p", "I", "a", "v", "2">>
TokTen == <<"R", "k", "3", "m", "N", "p", "8", "q", "Z", "x">>
TokFour == <<"a", "b", "c", "d">>
TokEleven == <<"R", "k", "3", "m", "N", "p", "8", "q", "Z", "x", "y">>
TokHyphen == <<"y", "R", "1", "-", "f", "Y", "c">>
ClassTokens == {TokFive, TokTen, TokFour, TokEleven, TokHyphen}

\* the longest class attribute enumerated, in tokens
MaxClasses == 2

\* line 384: li_element.get_attribute("class").split()
ClassLists == SeqsUpTo(ClassTokens, MaxClasses)

\* the pages the locator is run on: the matches of the generic selectors, whether the
\* text 'Top flights' is present, whether a list item follows it, and that item's classes
Pages ==
    { [generic |-> g, landmark |-> l, li |-> f, classes |-> cs] :
          g \in GenericPages, l \in BOOLEAN, f \in BOOLEAN, cs \in ClassLists }

\* a page has a following list item only if it has the landmark, and classes only if it
\* has the list item
PageOK(d) == (d.li => d.landmark) /\ (d.classes # <<>> => d.li)

\* what find_elements returns for li.<class>, line 395
ClassMatches == { <<>>, <<1>>, <<1, 2>> }

\* str.isalnum(): not empty, letters and digits only
IsAlnum(c) ==
    /\ c # <<>>
    /\ \A i \in 1..Len(c) :
          \/ c[i] \in Digit
          \/ \E j \in 1..26 : c[i] = UpperChars[j] \/ c[i] = LowerChars[j]

\* line 387: len(c) >= 5 and len(c) <= 10 and c.isalnum() and " " not in c; a token of
\* split() holds no space
IsClassToken(c) == Len(c) >= 5 /\ Len(c) <= 10 /\ IsAlnum(c)

\* lines 386-390: the first token that qualifies, <<>> if none does
RECURSIVE FirstClassToken(_)
FirstClassToken(cs) ==
    IF cs = <<>> THEN <<>>
    ELSE IF IsClassToken(cs[1]) THEN cs[1] ELSE FirstClassToken(Tail(cs))

\* lines 189-203, get_flight_containers: the first non-empty match of the selectors in
\* order, <<>> standing for the exception of line 203.  No line of the file calls it.
RECURSIVE get_flight_containers_from(_, _)
get_flight_containers_from(g, k) ==
    IF k > Len(g) THEN <<>>
    ELSE IF g[k] # <<>> THEN g[k] ELSE get_flight_containers_from(g, k + 1)

get_flight_containers(d) == get_flight_containers_from(d.generic, 1)

\* line 410, get_flight_container_class (lines 378-390): the wait for 'Top flights'
\* times out, or no list item follows it, or no class token qualifies, and the call
\* raises; otherwise the first qualifying token is returned
DetectClass ==
    /\ pc = "detect"
    /\ IF dom.landmark /\ dom.li /\ FirstClassToken(dom.classes) # <<>>
       THEN /\ flight_li_class' = FirstClassToken(dom.classes)
            /\ pc' = "query"
       ELSE /\ pc' = "page_raised"
            /\ UNCHANGED flight_li_class
    /\ UNCHANGED <<located, containers, all_flights, content, flights, dom>>
    /\ UNCHANGED <<mergeVars, saveVars, runVars, workerVars>>

\* line 411, get_flight_containers_by_detected_class, lines 394-395: the query by the
\* detected class; LocateContainers is the test of its result
QueryByClass ==
    /\ pc = "query"
    /\ \E m \in ClassMatches : located' = m
    /\ pc' = "locate"
    /\ UNCHANGED <<containers, all_flights, content, flights, dom, flight_li_class>>
    /\ UNCHANGED <<mergeVars, saveVars, runVars, workerVars>>

LocatorInit ==
    /\ pc = "detect"
    /\ MergeIdle
    /\ SaveIdle
    /\ url_google = TRUE
    /\ locator_failed = {}
    /\ flights_saved = FALSE
    /\ result = "pending"
    /\ located = <<>>
    /\ content = <<>>
    /\ containers = <<>>
    /\ all_flights = <<>>
    /\ flights = <<>>
    /\ dom \in { d \in Pages : PageOK(d) }
    /\ flight_li_class = <<>>
    /\ wpc = [w \in Workers |-> "idle"]
    /\ wfile = [w \in Workers |-> "LHR_JFK"]
    /\ wread = [w \in Workers |-> 0]
    /\ store = [f \in Files |-> 0]
    /\ calls = [w \in Workers |-> 0]

LocatorNext == DetectClass \/ QueryByClass \/ LocateContainers

SpecLocator == LocatorInit /\ [][LocatorNext]_vars

\* the locator is over: it returned the containers or it raised
Located == pc = "bound"
LocatorRaised == pc = "page_raised"

\* some generic selector matches on the page
GenericMatches == get_flight_containers(dom) # <<>>

\* C12: the generic selectors are tried first and the first non-empty match set is what
\* the locator returns; the landmark strategy is attempted only when every generic
\* selector matched nothing; the locator fails only when both tiers are exhausted.
C12_GenericFirst ==
    /\ GenericMatches /\ (Located \/ LocatorRaised) =>
          Located /\ containers = get_flight_containers(dom)
    /\ flight_li_class # <<>> => ~GenericMatches
    /\ LocatorRaised => ~GenericMatches

\* What the locator does: the landmark strategy alone decides; the containers returned
\* are the matches of the detected class, and the locator raises exactly when the
\* landmark, the list item after it or a qualifying class token is missing, or the
\* query by that class matches nothing, whatever the generic selectors match.
LandmarkOnly ==
    /\ Located =>
          /\ dom.landmark /\ dom.li
          /\ flight_li_class = FirstClassToken(dom.classes)
          /\ IsClassToken(flight_li_class)
          /\ containers = located /\ located \in ClassMatches \ {<<>>}
    /\ LocatorRaised =>
          \/ ~(dom.landmark /\ dom.li)
          \/ \A i \in 1..Len(dom.classes) : ~IsClassToken(dom.classes[i])
          \/ located = <<>>

\* the first generic selector matches two list items, the text 'Top flights' is not on
\* the page, and the locator raised
GenericIgnored ==
    /\ LocatorRaised
    /\ dom.generic[1] = <<1, 2>>
    /\ ~dom.landmark

----------------------------------------------------------------------------
(* Concurrent calls of save_to_excel: the with EXCEL_LOCK block, lines 274-375 *)

\* a with statement that does not wait for the lock
LockIgnored == TRUE

\* line 274: the with statement blocks until no thread holds the lock
LockFree == EXCEL_LOCK = FALSE

Inside == {"read", "diff", "write", "unlock"}

\* lines 218-272: the frame is built and ranked and the file name derived, outside the lock
WEnter(w) ==
    /\ wpc[w] = "idle"
    /\ calls[w] < MaxCalls
    /\ \E f \in Files : wfile' = [wfile EXCEPT ![w] = f]
    /\ wpc' = [wpc EXCEPT ![w] = "lock"]
    /\ UNCHANGED <<wread, store, calls>>
    /\ UNCHANGED <<pc, mergeVars, saveVars, runVars, pageVars>>

\* line 274
WAcquire(w) ==
    /\ wpc[w] = "lock"
    /\ LockFree
    /\ EXCEL_LOCK' = TRUE
    /\ wpc' = [wpc EXCEPT ![w] = "read"]
    /\ UNCHANGED <<wfile, wread, store, calls>>
    /\ UNCHANGED <<data, combined, bucket_name, s3_object, previous_prices, alerts,
                   uploaded, save_failed>>
    /\ UNCHANGED <<pc, mergeVars, runVars, pageVars>>

\* lines 276-294
WRead(w) ==
    /\ wpc[w] = "read"
    /\ wread' = [wread EXCEPT ![w] = store[wfile[w]]]
    /\ wpc' = [wpc EXCEPT ![w] = "diff"]
    /\ UNCHANGED <<wfile, store, calls>>
    /\ UNCHANGED <<pc, mergeVars, saveVars, runVars, pageVars>>

\* lines 296-322
WDiff(w) ==
    /\ wpc[w] = "diff"
    /\ wpc' = [wpc EXCEPT ![w] = "write"]
    /\ UNCHANGED <<wfile, wread, store, calls>>
    /\ UNCHANGED <<pc, mergeVars, saveVars, runVars, pageVars>>

\* lines 324-375: the upload replaces the stored sheet, or an exception is swallowed
WUpload(w) ==
    /\ wpc[w] = "write"
    /\ \/ store' = [store EXCEPT ![wfile[w]] = wread[w] + 1]
       \/ UNCHANGED store
    /\ wpc' = [wpc EXCEPT ![w] = "unlock"]
    /\ UNCHANGED <<wfile, wread, calls>>
    /\ UNCHANGED <<pc, mergeVars, saveVars, runVars, pageVars>>

\* the end of the with block
WRelease(w) ==
    /\ wpc[w] = "unlock"
    /\ EXCEL_LOCK' = FALSE
    /\ wpc' = [wpc EXCEPT ![w] = "idle"]
    /\ calls' = [calls EXCEPT ![w] = @ + 1]
    /\ UNCHANGED <<wfile, wread, store>>
    /\ UNCHANGED <<data, combined, bucket_name, s3_object, previous_prices, alerts,
                   uploaded, save_failed>>
    /\ UNCHANGED <<pc, mergeVars, runVars, pageVars>>

WorkersInit ==
    /\ pc = "workers"
    /\ MergeIdle
    /\ SaveIdle
    /\ RunIdle

WorkersNext ==
    \E w \in Workers :
        \/ WEnter(w)
        \/ WAcquire(w)
        \/ WRead(w)
        \/ WDiff(w)
        \/ WUpload(w)
        \/ WRelease(w)

SpecWorkers == WorkersInit /\ [][WorkersNext]_vars

\* C8: in every interleaving at most one worker is between reading the previous
\* snapshot and the end of its upload, the lock is held for as long as a worker is
\* there, and the sheet a worker has read is still the stored one until that worker
\* uploads: no other worker has read or replaced it in between.
C8_MutualExclusion ==
    /\ Cardinality({ w \in Workers : wpc[w] \in Inside }) <= 1
    /\ \A w \in Workers : wpc[w] \in Inside => EXCEL_LOCK
    /\ \A w \in Workers : wpc[w] \in {"diff", "write"} => wread[w] = store[wfile[w]]

\* one worker is inside the block for a file while another waits to enter for the same
\* file
C8_Witness ==
    \E w, v \in Workers :
        /\ w # v
        /\ wpc[w] = "write"
        /\ wpc[v] = "lock"
        /\ wfile[w] = wfile[v]
        /\ store[wfile[w]] > 0

----------------------------------------------------------------------------
(* The row save_to_excel leaves out of the price-change loop *)

\* a row the loop has annotated: its Price Change is no longer the column default
Annotated(row) == row.PriceChange # NA

\* C13: the one row left out of the price-change loop is the first ranked row (it keeps
\* the column default as Price Change and no alert is sent for it); every other row is
\* annotated.
C13_FirstRankedSkipped ==
    AfterDiff =>
        /\ ~Annotated(combined[1])
        /\ AlertCount(combined[1].idx) = 0
        /\ \A i \in 2..Len(combined) : Annotated(combined[i])

\* What the loop does: the row left out is the one whose index label is 0, the first
\* record of the list handed to save_to_excel, wherever the ranking puts it.
FirstHandedInSkipped ==
    AfterDiff =>
        \A i \in 1..Len(combined) :
            IF combined[i].idx = 0
            THEN /\ ~Annotated(combined[i])
                 /\ AlertCount(0) = 0
                 /\ KeyOf(combined[i]) = KeyOf(data[1])
                 /\ combined[i].Price = data[1].Price
            ELSE Annotated(combined[i])

\* the first ranked row was handed in second, and it got a computed price change
FirstRankedDiffed ==
    /\ AfterDiff
    /\ Len(combined) > 1
    /\ combined[1].idx # 0
    /\ combined[1].PriceChange # EmptyText
    /\ Annotated(combined[1])
    /\ ~Annotated(combined[2])

----------------------------------------------------------------------------
(* The validation gate of scrape_current_page_flights *)

\* the two texts as the validation reads them off a record
Co2Of(r) == Strip(StrGet(r.CO2))
PriceOf(r) == Strip(StrGet(r.Price))

\* both texts are well formed
WellFormed(r) == Co2Pattern(Lower(Co2Of(r))) /\ PricePattern(PriceOf(r))

\* the record with its two texts stripped
Stripped(r) == [r EXCEPT !.CO2 = Co2Of(r), !.Price = PriceOf(r)]

\* the extracted containers whose record is well formed, in page order
Kept == SelectSeq(all_flights, LAMBDA c : WellFormed(content[c]))

\* C11: the list scrape_current_page_flights returns holds exactly the extracted records
\* whose CO2 Emissions text matches the CO2 pattern and whose Price text matches the
\* currency pattern, in page order and with the two texts stripped; a record failing
\* either pattern is not in it; and validating a stripped record again gives the same
\* verdict as the first time, for the accepted and for the rejected ones.
C11_ValidationGate ==
    /\ pc # "page_returned" => flights = <<>>
    /\ pc = "page_returned" =>
          /\ Len(flights) = Len(Kept)
          /\ \A j \in 1..Len(flights) :
                /\ flights[j] = Stripped(content[Kept[j]])
                /\ Co2Pattern(Lower(flights[j].CO2))
                /\ PricePattern(flights[j].Price)
          /\ \A i \in 1..Len(all_flights) :
                WellFormed(Stripped(content[all_flights[i]]))
                    <=> WellFormed(content[all_flights[i]])

\* two containers were extracted; the first has a well-formed price and a malformed CO2
\* text and was dropped, the second was accepted and its padded texts were stripped
C11_Witness ==
    /\ pc = "page_returned"
    /\ Len(all_flights) = 2
    /\ content[1] = [CO2 |-> CTwoSpaces, Price |-> P100]
    /\ content[2] = [CO2 |-> CPadded, Price |-> PPadded]
    /\ Len(flights) = 1
    /\ flights[1].CO2 = <<"9", "8", "k", "g", "nbsp", "C", "O", "sub2">>
    /\ flights[1].Price = <<"$", " ", "8", "0">>

====
